---- MODULE Spec2Model ----
(***************************************************************************)
(* Token lifecycle of the TONE3000 demo client: t3kFetch (proactive        *)
(* refresh, GET, reactive refresh and one retry), handleAuth (api_key      *)
(* exchange on mount) and handleLogout, over the browser's localStorage.   *)
(*                                                                         *)
(* A JavaScript string is a sequence of one-character strings, so that     *)
(* String(number) and parseInt are computed digit by digit.  null (the     *)
(* answer of getItem for a missing key) is the value NULL.  A JavaScript   *)
(* number that may be NaN is a record: Num(n) or NaN.  A character that a  *)
(* string of this module cannot hold is written as the name of its code    *)
(* point, "U+2028".                                                        *)
(***************************************************************************)
EXTENDS Integers, Sequences, FiniteSets, TLC

(* ------------------------------ bounds -------------------------------- *)

\* Number of Sessions the remote service grants in one behaviour.
MaxIssue == 2

\* Date.now() at the first state, and the last clock value explored.
StartClock == 1000000
ClockSpan == 30000

\* Amounts (ms) by which the clock advances between two steps.
TickSteps == {30000}

\* expires_in values (seconds) the remote service grants.
ExpiresInValues == {30, 60}

\* Sessions left in localStorage by an earlier page load expire at one of these.
StoredExpiry == {StartClock + 30000}

(* --------------------------- program constants ------------------------ *)

API_DOMAIN == "https://www.tone3000.com"

\* encodeURIComponent('http://localhost:3001')
redirectUrl == "http%3A%2F%2Flocalhost%3A3001"

AuthUrl == API_DOMAIN \o "/api/v1/auth?redirect_url=" \o redirectUrl

RefreshUrl == API_DOMAIN \o "/api/v1/auth/session/refresh"

\* VITE_APP_ID || 'my-awesome-app'
appId == "my-awesome-app"

SelectUrl == API_DOMAIN \o "/api/v1/select?redirect_url=" \o redirectUrl \o "&app_id=" \o appId

\* The page's own address without a query: its origin and
\* window.location.pathname.
AppUrl == "http://localhost:3001/"

\* URLs the callers of t3kFetch pass: handleGetUser's and handleGetTonesCreated's.
UserUrl == API_DOMAIN \o "/api/v1/user"

TonesCreatedUrl == API_DOMAIN \o "/api/v1/tones/created?page=1&page_size=10"

\* The safety margin of the proactive check, in milliseconds.
Margin == 30000

MsPerSecond == 1000

Unauthorized == 401

\* Statuses the remote service answers a GET with.
GetStatuses == {200, 401, 404}

\* Statuses the remote service answers a refresh or session POST with.
PostStatuses == {200, 401}

ErrNoAccessToken == "No access token available"

ErrAuthFailed == "Authentication failed and token refresh unsuccessful"

\* The errors thrown inside the try blocks.
ErrNoRefreshToken == "No refresh token available"

ErrRefreshFailed == "Token refresh failed"

ErrFetch == "TypeError: Failed to fetch"

NoError == ""

(* ------------------------------ strings -------------------------------- *)

NULL == <<"null">>

DigitChar == <<"0", "1", "2", "3", "4", "5", "6", "7", "8", "9">>

\* String(n) for an integer n >= 0: its decimal digits.
RECURSIVE String(_)
String(n) == IF n < 10 THEN <<DigitChar[n + 1]>>
             ELSE String(n \div 10) \o <<DigitChar[(n % 10) + 1]>>

\* The digits parseInt reads, lower and upper case, in the order of their values.
LowerDigits == <<"0", "1", "2", "3", "4", "5", "6", "7", "8", "9", "a", "b", "c", "d", "e", "f">>

UpperDigits == <<"0", "1", "2", "3", "4", "5", "6", "7", "8", "9", "A", "B", "C", "D", "E", "F">>

IsDigit(ch, radix) == \E d \in 1..radix : LowerDigits[d] = ch \/ UpperDigits[d] = ch

DigitVal(ch, radix) == (CHOOSE d \in 1..radix : LowerDigits[d] = ch \/ UpperDigits[d] = ch) - 1

\* White space and line terminators of JavaScript that a string here can
\* hold as they are: space, tab, line feed, carriage return, form feed,
\* U+000B, U+00A0, U+1680 and U+FEFF.
WrittenBlanks == {" ", "\t", "\n", "\r", "\f", "", " ", " ", "﻿"}

\* The others, each written as the name of its code point: U+2000 to
\* U+200A, the line and paragraph separators, U+202F, U+205F and U+3000.
NamedBlanks ==
    {"U+2000", "U+2001", "U+2002", "U+2003", "U+2004", "U+2005", "U+2006", "U+2007",
     "U+2008", "U+2009", "U+200A", "U+2028", "U+2029", "U+202F", "U+205F", "U+3000"}

\* White space parseInt skips at the start of its argument.
IsBlank(ch) == ch \in WrittenBlanks \cup NamedBlanks

\* A number n, and the number NaN.
Num(n) == [nan |-> FALSE, val |-> n]

NaN == [nan |-> TRUE, val |-> 0]

RECURSIVE SkipBlanks(_, _)
SkipBlanks(s, i) == IF i <= Len(s) /\ IsBlank(s[i]) THEN SkipBlanks(s, i + 1) ELSE i

RECURSIVE ParseDigits(_, _, _, _)
ParseDigits(s, i, acc, radix) ==
    IF i > Len(s) \/ ~IsDigit(s[i], radix) THEN acc
    ELSE ParseDigits(s, i + 1, acc * radix + DigitVal(s[i], radix), radix)

\* parseInt(s) without a radix: leading white space is skipped, a sign is
\* read, a 0x or 0X prefix selects hexadecimal, and the digits that follow
\* are the value; NaN when no digit follows.
parseInt(s) ==
    LET i == SkipBlanks(s, 1)
        signed == i <= Len(s) /\ s[i] \in {"+", "-"}
        sign == IF signed /\ s[i] = "-" THEN -1 ELSE 1
        j == IF signed THEN i + 1 ELSE i
        hex == j + 1 <= Len(s) /\ s[j] = "0" /\ s[j + 1] \in {"x", "X"}
        radix == IF hex THEN 16 ELSE 10
        k == IF hex THEN j + 2 ELSE j IN
    IF k > Len(s) \/ ~IsDigit(s[k], radix) THEN NaN
    ELSE Num(sign * ParseDigits(s, k, 0, radix))

\* !v for a value read from localStorage: null and '' are falsy.
Falsy(v) == v = NULL \/ v = <<>>

\* v || d
OrElse(v, d) == IF Falsy(v) THEN d ELSE v

AccessTok(k) == <<"A">> \o String(k)

RefreshTok(k) == <<"R">> \o String(k)

\* The api_key values the auth redirect may return with.
ApiKeys == {<<"K", "1">>}

\* A string of the program as text of an address.
RECURSIVE Text(_)
Text(s) == IF s = <<>> THEN "" ELSE Head(s) \o Text(Tail(s))

\* The address the auth redirect returns the browser to.
ReturnUrl(apiKey) == AppUrl \o "?api_key=" \o Text(apiKey)

\* `Bearer ${accessToken}`
Bearer(tok) == <<"Bearer ">> \o tok

(* ------------------------------- state --------------------------------- *)

VARIABLES
    now,           \* Date.now()
    store,         \* localStorage: key -> string or NULL
    href,          \* window.location.href
    issued,        \* Sessions the remote service has granted so far
    call,          \* per call slot: where the call is suspended, and its locals
    authPc,        \* handleAuth: the await it is suspended at
    authResponse   \* handleAuth: local response

vars == <<now, store, href, issued, call, authPc, authResponse>>

\* The call slots: at most two calls are in flight together.  A call takes
\* the lowest free slot; slot 1 is a call of handleGetUser, and slot 2, the
\* call made while another is in flight, one of handleGetTonesCreated.
Calls == {1, 2}

UrlOf(c) == IF c = 1 THEN UserUrl ELSE TonesCreatedUrl

MaxClock == StartClock + ClockSpan

AccessKey == "tone3000_access_token"

RefreshKey == "tone3000_refresh_token"

ExpiresKey == "tone3000_expires_at"

ApiKeyKey == "tone3000_api_key"

SessionKeys == {AccessKey, RefreshKey, ExpiresKey}

StoreKeys == SessionKeys \cup {ApiKeyKey}

EmptyStore == [k \in StoreKeys |-> NULL]

\* localStorage.getItem / setItem / removeItem
getItem(s, k) == s[k]

setItem(s, k, v) == [s EXCEPT ![k] = v]

removeItem(s, k) == [s EXCEPT ![k] = NULL]

\* interface Session as parsed from a response body
Session(k, e) == [access_token |-> AccessTok(k), refresh_token |-> RefreshTok(k), expires_in |-> e]

NoSession == [access_token |-> NULL, refresh_token |-> NULL, expires_in |-> 0]

\* A Response: its status, and the Session its body parses to.
Response(s, b) == [status |-> s, body |-> b]

NoResponse == Response(0, NoSession)

\* Response.ok
Ok(r) == r.status >= 200 /\ r.status <= 299

\* One observable step of a call, as recorded in its log.
Ev(op, target, data) == [op |-> op, target |-> target, data |-> data]

Post(rt, at) == Ev("POST", RefreshUrl, <<rt, at>>)

Get(u, at) == Ev("GET", u, <<Bearer(at)>>)

Answer(u, r) == Ev("answer", u, <<String(r.status)>>)

Reject(u) == Ev("reject", u, <<>>)

Set(k, v) == Ev("setItem", k, <<v>>)

Remove(k) == Ev("removeItem", k, <<>>)

Redirect(u) == Ev("href", u, <<>>)

(* ------------------------- the code's decisions ------------------------ *)

\* Variant of NeedsRefresh: the margin is left out.
NeedsRefreshNoMargin(t, exp) == ~exp.nan /\ t > exp.val

\* Variant of NeedsRefresh: the boundary counts as about to expire.
NeedsRefreshInclusive(t, exp) == ~exp.nan /\ t >= exp.val - Margin

\* Date.now() > expiresAt - 30000 (false when expiresAt is NaN)
NeedsRefresh(t, exp) == ~exp.nan /\ t > exp.val - Margin

\* Variant of IsUnauthorized: any failed response counts.
IsUnauthorizedAnyFailure(r) == ~Ok(r)

\* response.status === 401
IsUnauthorized(r) == r.status = Unauthorized

\* Variant of ExpiresAtValue: expires_in is taken as milliseconds.
ExpiresAtValueSeconds(t, e) == t + e

\* Date.now() + (tokens.expires_in * 1000)
ExpiresAtValue(t, e) == t + (e * MsPerSecond)

\* Variant of StoreTokensLog: expires_at is not written.
StoreTokensLogNoExpiry(sess, t) ==
    << Set(AccessKey, sess.access_token),
       Set(RefreshKey, sess.refresh_token) >>

\* Variant of StoreTokensLog: the refresh token is not rotated.
StoreTokensLogKeepRefresh(sess, t) ==
    << Set(AccessKey, sess.access_token),
       Set(ExpiresKey, String(ExpiresAtValue(t, sess.expires_in))) >>

\* The three setItem calls that store a Session at clock value t.
StoreTokensLog(sess, t) ==
    << Set(AccessKey, sess.access_token),
       Set(RefreshKey, sess.refresh_token),
       Set(ExpiresKey, String(ExpiresAtValue(t, sess.expires_in))) >>

\* Variant of ClearTokensLog: expires_at is left behind.
ClearTokensLogTwoKeys == << Remove(AccessKey), Remove(RefreshKey) >>

\* Variant of ClearTokensLog: the cached api_key is removed as well.
ClearTokensLogAllKeys ==
    << Remove(AccessKey), Remove(RefreshKey), Remove(ExpiresKey), Remove(ApiKeyKey) >>

\* The three removeItem calls of the refresh-failure branch and of handleLogout.
ClearTokensLog == << Remove(AccessKey), Remove(RefreshKey), Remove(ExpiresKey) >>

\* localStorage after the setItem and removeItem calls of evs, in order.
RECURSIVE Apply(_, _)
Apply(s, evs) ==
    IF evs = <<>> THEN s
    ELSE LET ev == Head(evs) IN
         Apply(IF ev.op = "setItem" THEN setItem(s, ev.target, ev.data[1])
               ELSE IF ev.op = "removeItem" THEN removeItem(s, ev.target)
               ELSE s,
               Tail(evs))

StoreTokens(s, sess, t) == Apply(s, StoreTokensLog(sess, t))

\* Variant of ClearTokens: nothing is removed unless a whole Session is stored.
ClearTokensIfComplete(s) ==
    IF \A k \in SessionKeys : getItem(s, k) # NULL THEN Apply(s, ClearTokensLog) ELSE s

ClearTokens(s) == Apply(s, ClearTokensLog)

(* ------------------------------- Init ---------------------------------- *)

\* A call slot before its first call; the locals of a call that has
\* returned or thrown are gone, and read as in this record.
IdleCall ==
    [pc |-> "idle", url |-> "", accessToken |-> NULL, expiresAt |-> Num(0),
     refreshResponse |-> NoResponse, tokens |-> NoSession,
     response |-> NoResponse, error |-> NoError, log |-> <<>>]

\* A slot whose call has returned or thrown is free for the next call.
Free(r) == r.pc \in {"idle", "returned", "thrown"}

\* What an earlier page load may have left in localStorage, next to the
\* api_key it cached: a whole Session; access and refresh token without
\* expires_at, as the earlier version of the page (src/src/App.tsx) stores
\* them; or no Session, after a logout or a refused refresh.
StoredStores ==
    { [k \in StoreKeys |->
          IF k = ApiKeyKey THEN apiKey
          ELSE IF k = AccessKey /\ held THEN AccessTok(0)
          ELSE IF k = RefreshKey /\ held THEN RefreshTok(0)
          ELSE IF k = ExpiresKey /\ held /\ e # 0 THEN String(e)
          ELSE NULL]
      : apiKey \in ApiKeys, held \in BOOLEAN, e \in StoredExpiry \cup {0} }

InitRest ==
    /\ now = StartClock
    /\ href = AppUrl
    /\ issued = 0
    /\ call = [c \in Calls |-> IdleCall]
    /\ authPc = "idle"
    /\ authResponse = NoResponse

\* The page is loaded for the first time: localStorage is empty.
Init == store = EmptyStore /\ InitRest

\* The page is loaded over whatever an earlier load left in localStorage.
InitStored == store \in StoredStores /\ InitRest

(* ------------------------------ t3kFetch ------------------------------- *)

\* throw new Error(msg): the call ends, r.log is what it did.
Throw(r, msg) ==
    [IdleCall EXCEPT !.pc = "thrown", !.url = r.url, !.error = msg, !.log = r.log]

\* return response
Return(r, resp) ==
    [IdleCall EXCEPT !.pc = "returned", !.url = r.url, !.response = resp, !.log = r.log]

\* fetch(url, {GET, Authorization: Bearer at}); the call suspends at next.
SendGet(r, at, next) ==
    [r EXCEPT !.pc = next, !.log = @ \o <<Get(r.url, at)>>]

\* catch (refreshError) { throw new Error('Authentication failed ...') }:
\* whatever was thrown inside the try block, the call throws ErrAuthFailed.
Rethrow(refreshError) == ErrAuthFailed

\* Variant of BeginRefresh: without a refresh token the call goes on with
\* the access token it holds.
BeginRefreshLenient(r, s, next) ==
    LET refreshToken == getItem(s, RefreshKey) IN
    IF Falsy(refreshToken)
    THEN SendGet(r, r.accessToken, IF next = "proactive_fetch" THEN "first_get" ELSE "retry_get")
    ELSE [r EXCEPT !.pc = next, !.log = @ \o <<Post(refreshToken, r.accessToken)>>]

\* The start of the try block of the expiry check: reads refresh_token
\* from s and throws (caught and rethrown as ErrAuthFailed) when there is
\* none, else sends the refresh POST and suspends at next.
BeginRefresh(r, s, next) ==
    LET refreshToken == getItem(s, RefreshKey) IN
    IF Falsy(refreshToken) THEN Throw(r, Rethrow(ErrNoRefreshToken))
    ELSE [r EXCEPT !.pc = next, !.log = @ \o <<Post(refreshToken, r.accessToken)>>]

\* The start of the try block of the 401 branch: as BeginRefresh, in the
\* code's second copy of the refresh.
BeginReactiveRefresh(r, s) ==
    LET refreshToken == getItem(s, RefreshKey) IN
    IF Falsy(refreshToken) THEN Throw(r, Rethrow(ErrNoRefreshToken))
    ELSE [r EXCEPT !.pc = "reactive_fetch", !.log = @ \o <<Post(refreshToken, r.accessToken)>>]

\* Variant of Enter: the expiry is checked before the access token.
EnterCheckLate(u, s, t) ==
    LET r == [IdleCall EXCEPT !.url = u,
                              !.accessToken = getItem(s, AccessKey),
                              !.expiresAt = parseInt(OrElse(getItem(s, ExpiresKey), <<"0">>))] IN
    IF NeedsRefresh(t, r.expiresAt) THEN BeginRefresh(r, s, "proactive_fetch")
    ELSE IF Falsy(r.accessToken) THEN Throw(r, ErrNoAccessToken)
    ELSE SendGet(r, r.accessToken, "first_get")

\* Variant of Enter: a store that lacks any of the three keys counts as
\* holding no Session.
EnterCompleteOnly(u, s, t) ==
    LET r == [IdleCall EXCEPT !.url = u,
                              !.accessToken = getItem(s, AccessKey),
                              !.expiresAt = parseInt(OrElse(getItem(s, ExpiresKey), <<"0">>))] IN
    IF \E k \in SessionKeys : Falsy(getItem(s, k)) THEN Throw(r, ErrNoAccessToken)
    ELSE IF NeedsRefresh(t, r.expiresAt) THEN BeginRefresh(r, s, "proactive_fetch")
    ELSE SendGet(r, r.accessToken, "first_get")

\* Variant of Enter: a missing expires_at is parsed as it is read (NaN)
\* instead of being replaced by '0'.
EnterNoDefault(u, s, t) ==
    LET r == [IdleCall EXCEPT !.url = u,
                              !.accessToken = getItem(s, AccessKey),
                              !.expiresAt = parseInt(getItem(s, ExpiresKey))] IN
    IF Falsy(r.accessToken) THEN Throw(r, ErrNoAccessToken)
    ELSE IF NeedsRefresh(t, r.expiresAt) THEN BeginRefresh(r, s, "proactive_fetch")
    ELSE SendGet(r, r.accessToken, "first_get")

\* The call up to its first await: reads the store, throws without an
\* access token, starts the proactive refresh or sends the first GET.
Enter(u, s, t) ==
    LET r == [IdleCall EXCEPT !.url = u,
                              !.accessToken = getItem(s, AccessKey),
                              !.expiresAt = parseInt(OrElse(getItem(s, ExpiresKey), <<"0">>))] IN
    IF Falsy(r.accessToken) THEN Throw(r, ErrNoAccessToken)
    ELSE IF NeedsRefresh(t, r.expiresAt) THEN BeginRefresh(r, s, "proactive_fetch")
    ELSE SendGet(r, r.accessToken, "first_get")

Start(c) ==
    /\ Free(call[c])
    /\ \A d \in Calls : d < c => ~Free(call[d])
    /\ call' = [call EXCEPT ![c] = Enter(UrlOf(c), store, now)]
    /\ UNCHANGED <<now, store, href, issued, authPc, authResponse>>

\* if (!refreshResponse.ok): the three keys are removed, the page is
\* redirected and the call throws; else the call awaits json().
OnRefreshResponse(r, resp, next) ==
    LET got == [r EXCEPT !.refreshResponse = resp, !.log = @ \o <<Answer(RefreshUrl, resp)>>] IN
    IF ~Ok(resp)
    THEN Throw([got EXCEPT !.log = @ \o ClearTokensLog \o <<Redirect(AuthUrl)>>],
               Rethrow(ErrRefreshFailed))
    ELSE [got EXCEPT !.pc = next]

\* if (!refreshResponse.ok) of the 401 branch: as OnRefreshResponse, in the
\* code's second copy of the refresh.
OnReactiveRefreshResponse(r, resp) ==
    LET got == [r EXCEPT !.refreshResponse = resp, !.log = @ \o <<Answer(RefreshUrl, resp)>>] IN
    IF ~Ok(resp)
    THEN Throw([got EXCEPT !.log = @ \o ClearTokensLog \o <<Redirect(AuthUrl)>>],
               Rethrow(ErrRefreshFailed))
    ELSE [got EXCEPT !.pc = "reactive_json"]

\* What a call did in a step: the entries its log gained.
Done(before, after) == SubSeq(after.log, Len(before.log) + 1, Len(after.log))

\* window.location.href after the assignments among evs.
RECURSIVE Navigate(_, _)
Navigate(h, evs) ==
    IF evs = <<>> THEN h
    ELSE Navigate(IF Head(evs).op = "href" THEN Head(evs).target ELSE h, Tail(evs))

\* await fetch(refresh) resolves with status s; a success carries a new Session.
RefreshAnswered(c, s, e) ==
    /\ call[c].pc \in {"proactive_fetch", "reactive_fetch"}
    /\ s = 200 => issued < MaxIssue
    /\ issued' = IF s = 200 THEN issued + 1 ELSE issued
    /\ LET resp == Response(s, IF s = 200 THEN Session(issued + 1, e) ELSE NoSession)
           after == IF call[c].pc = "proactive_fetch"
                    THEN OnRefreshResponse(call[c], resp, "proactive_json")
                    ELSE OnReactiveRefreshResponse(call[c], resp) IN
       /\ call' = [call EXCEPT ![c] = after]
       /\ store' = Apply(store, Done(call[c], after))
       /\ href' = Navigate(href, Done(call[c], after))
    /\ UNCHANGED <<now, authPc, authResponse>>

\* Variant of OnRefreshParsed: the GET is sent before the Session is stored.
OnRefreshParsedSendFirst(r, t) ==
    LET sess == r.refreshResponse.body
        sent == SendGet([r EXCEPT !.tokens = sess], sess.access_token,
                        IF r.pc = "proactive_json" THEN "first_get" ELSE "retry_get") IN
    [sent EXCEPT !.log = @ \o StoreTokensLog(sess, t),
                 !.accessToken = IF r.pc = "proactive_json" THEN sess.access_token ELSE @]

\* Variant of OnRefreshParsed: the GET goes out with the access token the
\* call read when it started.
OnRefreshParsedOldToken(r, t) ==
    LET sess == r.refreshResponse.body
        kept == [r EXCEPT !.tokens = sess, !.log = @ \o StoreTokensLog(sess, t)] IN
    SendGet(kept, r.accessToken, IF r.pc = "proactive_json" THEN "first_get" ELSE "retry_get")

\* After json() of the proactive refresh: the Session is stored at clock
\* value t, accessToken is updated and the first GET is sent with it.
OnRefreshParsed(r, t) ==
    LET sess == r.refreshResponse.body
        kept == [r EXCEPT !.tokens = sess, !.log = @ \o StoreTokensLog(sess, t)] IN
    SendGet([kept EXCEPT !.accessToken = sess.access_token], sess.access_token, "first_get")

\* Variant of OnReactiveRefreshParsed: expires_at is not renewed.
OnReactiveRefreshParsedNoExpiry(r, t) ==
    LET sess == r.refreshResponse.body
        kept == [r EXCEPT !.tokens = sess, !.log = @ \o StoreTokensLogNoExpiry(sess, t)] IN
    SendGet(kept, sess.access_token, "retry_get")

\* After json() of the reactive refresh: the Session is stored at clock
\* value t and the GET is sent again with tokens.access_token.
OnReactiveRefreshParsed(r, t) ==
    LET sess == r.refreshResponse.body
        kept == [r EXCEPT !.tokens = sess, !.log = @ \o StoreTokensLog(sess, t)] IN
    SendGet(kept, sess.access_token, "retry_get")

\* await refreshResponse.json() resolves.
RefreshParsed(c) ==
    /\ call[c].pc \in {"proactive_json", "reactive_json"}
    /\ LET after == IF call[c].pc = "proactive_json"
                    THEN OnRefreshParsed(call[c], now)
                    ELSE OnReactiveRefreshParsed(call[c], now) IN
       /\ call' = [call EXCEPT ![c] = after]
       /\ store' = Apply(store, Done(call[c], after))
    /\ UNCHANGED <<now, href, issued, authPc, authResponse>>

\* After the first GET: a 401 starts the reactive refresh, anything else
\* is returned.
OnFirstResponse(r, resp, s) ==
    LET got == [r EXCEPT !.response = resp, !.log = @ \o <<Answer(r.url, resp)>>] IN
    IF IsUnauthorized(resp) THEN BeginReactiveRefresh(got, s)
    ELSE Return(got, resp)

\* await fetch(url) of the first request resolves with status s.
FirstGetAnswered(c, s) ==
    /\ call[c].pc = "first_get"
    /\ call' = [call EXCEPT ![c] = OnFirstResponse(call[c], Response(s, NoSession), store)]
    /\ UNCHANGED <<now, store, href, issued, authPc, authResponse>>

\* Variant of OnRetryResponse: a 401 on the retry starts another refresh.
OnRetryResponseAgain(r, resp, s) ==
    LET got == [r EXCEPT !.response = resp, !.log = @ \o <<Answer(r.url, resp)>>] IN
    IF IsUnauthorized(resp) THEN BeginRefresh(got, s, "reactive_fetch")
    ELSE Return(got, resp)

\* After the retried GET: the response is returned, whatever its status.
OnRetryResponse(r, resp, s) ==
    Return([r EXCEPT !.log = @ \o <<Answer(r.url, resp)>>], resp)

\* await fetch(url) of the retry resolves with status s.
RetryGetAnswered(c, s) ==
    /\ call[c].pc = "retry_get"
    /\ call' = [call EXCEPT ![c] = OnRetryResponse(call[c], Response(s, NoSession), store)]
    /\ UNCHANGED <<now, store, href, issued, authPc, authResponse>>

\* An awaited fetch or json() rejects (network failure, unreadable body).
\* Inside either try block the catch rethrows ErrAuthFailed; the first GET
\* is outside them and its rejection reaches the caller as it is.
OnReject(r) ==
    LET got == [r EXCEPT !.log = @ \o <<Reject(IF r.pc \in {"first_get", "retry_get"}
                                               THEN r.url ELSE RefreshUrl)>>] IN
    Throw(got, IF r.pc = "first_get" THEN ErrFetch ELSE Rethrow(ErrFetch))

Rejected(c) ==
    /\ ~Free(call[c])
    /\ call' = [call EXCEPT ![c] = OnReject(call[c])]
    /\ UNCHANGED <<now, store, href, issued, authPc, authResponse>>

(* ------------------------ handleAuth, handleLogout ---------------------- *)

\* The page is loaded at ReturnUrl(apiKey) and mounts: the key is cached
\* and the session POST is sent.  The load starts the page anew: nothing
\* of an earlier load is in flight.
Mount(apiKey) ==
    /\ href' = ReturnUrl(apiKey)
    /\ store' = setItem(store, ApiKeyKey, apiKey)
    /\ authPc' = "session_fetch"
    /\ authResponse' = NoResponse
    /\ call' = [c \in Calls |-> IdleCall]
    /\ UNCHANGED <<now, issued>>

\* Variant of AuthAnswered: response.ok is not tested, the body of a
\* refused exchange is parsed and stored like any other.
AuthAnsweredNoOkTest(s, e) ==
    /\ authPc = "session_fetch"
    /\ s = 200 => issued < MaxIssue
    /\ issued' = IF s = 200 THEN issued + 1 ELSE issued
    /\ authResponse' = Response(s, IF s = 200 THEN Session(issued + 1, e) ELSE NoSession)
    /\ authPc' = "session_json"
    /\ UNCHANGED <<now, store, href, call>>

\* await fetch(session) resolves with status s; not ok throws, and
\* handleAuth ends, its response gone with it.
AuthAnswered(s, e) ==
    /\ authPc = "session_fetch"
    /\ s = 200 => issued < MaxIssue
    /\ issued' = IF s = 200 THEN issued + 1 ELSE issued
    /\ LET response == Response(s, IF s = 200 THEN Session(issued + 1, e) ELSE NoSession) IN
       /\ authResponse' = IF Ok(response) THEN response ELSE NoResponse
       /\ authPc' = IF Ok(response) THEN "session_json" ELSE "idle"
    /\ UNCHANGED <<now, store, href, call>>

\* await response.json() resolves: the Session is stored and the query is
\* taken off the page's address (history.replaceState).
AuthParsed ==
    /\ authPc = "session_json"
    /\ store' = StoreTokens(store, authResponse.body, now)
    /\ href' = AppUrl
    /\ authPc' = "idle"
    /\ authResponse' = NoResponse
    /\ UNCHANGED <<now, issued, call>>

\* await fetch(session) or await response.json() rejects: handleAuth ends
\* there, nothing is stored.
AuthRejected ==
    /\ authPc \in {"session_fetch", "session_json"}
    /\ authPc' = "idle"
    /\ authResponse' = NoResponse
    /\ UNCHANGED <<now, store, href, issued, call>>

handleLogin(requireOtp) ==
    LET otpParam == IF requireOtp THEN "&otp_only=true" ELSE "" IN
    /\ href' = AuthUrl \o otpParam
    /\ UNCHANGED <<now, store, issued, call, authPc, authResponse>>

handleSelectTone ==
    /\ href' = SelectUrl
    /\ UNCHANGED <<now, store, issued, call, authPc, authResponse>>

handleLogout ==
    /\ store' = ClearTokens(store)
    /\ UNCHANGED <<now, href, issued, call, authPc, authResponse>>

\* Time passes.
Tick(d) ==
    /\ now + d <= MaxClock
    /\ now' = now + d
    /\ UNCHANGED <<store, href, issued, call, authPc, authResponse>>

Next ==
    \/ \E c \in Calls : Start(c)
    \/ \E c \in Calls, s \in PostStatuses, e \in ExpiresInValues : RefreshAnswered(c, s, e)
    \/ \E c \in Calls : RefreshParsed(c)
    \/ \E c \in Calls, s \in GetStatuses : FirstGetAnswered(c, s)
    \/ \E c \in Calls, s \in GetStatuses : RetryGetAnswered(c, s)
    \/ \E c \in Calls : Rejected(c)
    \/ \E apiKey \in ApiKeys : Mount(apiKey)
    \/ \E s \in PostStatuses, e \in ExpiresInValues : AuthAnswered(s, e)
    \/ AuthParsed
    \/ AuthRejected
    \/ \E requireOtp \in BOOLEAN : handleLogin(requireOtp)
    \/ handleSelectTone
    \/ handleLogout
    \/ \E d \in TickSteps : Tick(d)

\* The page is reloaded without ?api_key: handleAuth does not run.
NextStored ==
    \/ \E c \in Calls : Start(c)
    \/ \E c \in Calls, s \in PostStatuses, e \in ExpiresInValues : RefreshAnswered(c, s, e)
    \/ \E c \in Calls : RefreshParsed(c)
    \/ \E c \in Calls, s \in GetStatuses : FirstGetAnswered(c, s)
    \/ \E c \in Calls, s \in GetStatuses : RetryGetAnswered(c, s)
    \/ \E c \in Calls : Rejected(c)
    \/ \E requireOtp \in BOOLEAN : handleLogin(requireOtp)
    \/ handleSelectTone
    \/ handleLogout
    \/ \E d \in TickSteps : Tick(d)

Spec == Init /\ [][Next]_vars

SpecStored == InitStored /\ [][NextStored]_vars

(* ------------------------------- claims -------------------------------- *)

\* How many entries of log l are op.
NumOp(l, op) == Cardinality({i \in 1..Len(l) : l[i].op = op})

Requests(l) == NumOp(l, "POST") + NumOp(l, "GET")

\* The status of an answer recorded in a log.
StatusOf(ev) == parseInt(ev.data[1]).val

IsRefreshAnswer(ev) == ev.op = "answer" /\ ev.target = RefreshUrl

Success(status) == status \in 200..299

SessionAbsent(s) == \A k \in SessionKeys : s[k] = NULL

\* C1 (log): in the log of every call, a non-success answer of the refresh
\* endpoint is followed by the removal of the three session keys, then the
\* redirect to AuthUrl, and by nothing else; the call has thrown.
C1_Log ==
    \A c \in Calls : \A i \in 1..Len(call[c].log) :
        LET l == call[c].log IN
        (IsRefreshAnswer(l[i]) /\ ~Success(StatusOf(l[i]))) =>
            /\ Len(l) = i + 4
            /\ {l[i + 1].target, l[i + 2].target, l[i + 3].target} = SessionKeys
            /\ \A j \in i + 1..i + 3 : l[j].op = "removeItem"
            /\ l[i + 4] = Redirect(AuthUrl)
            /\ call[c].pc = "thrown"
            /\ call[c].error # NoError

\* C1 (step): the step in which a refresh POST is answered with a
\* non-success status leaves the three session keys absent and the page
\* redirected to AuthUrl, and sends no request.
C1_Step ==
    \A c \in Calls : \A s \in PostStatuses : \A e \in ExpiresInValues :
        (RefreshAnswered(c, s, e) /\ ~Success(s)) =>
            /\ SessionAbsent(store')
            /\ href' = AuthUrl
            /\ call'[c].pc = "thrown"
            /\ Requests(call'[c].log) = Requests(call[c].log)

\* C1: whenever the refresh endpoint answers a refresh POST (proactive or
\* reactive) with a non-success status, the three session keys are removed,
\* then the redirect to <API_DOMAIN>/api/v1/auth?redirect_url=... is issued,
\* and the call fails without sending any further request.
C1_RefreshFailureClearsAndRedirects == [](C1_Log) /\ [][C1_Step]_vars

\* Both calls have thrown on a rejected refresh: slot 1 on the reactive
\* path (after a GET), slot 2 on the proactive one.
C1_Witness ==
    /\ call[1].pc = "thrown" /\ call[2].pc = "thrown"
    /\ NumOp(call[1].log, "GET") = 1 /\ NumOp(call[1].log, "href") = 1
    /\ NumOp(call[2].log, "GET") = 0 /\ NumOp(call[2].log, "href") = 1
    /\ SessionAbsent(store) /\ href = AuthUrl

\* C2 (refresh parsed): the step that ends a successful reactive refresh
\* sends exactly one request, a GET to the call's url carrying the access
\* token of the refresh answer, and leaves that answer's refresh token in
\* the store; the call has then sent two GETs, both to the same url.
C2_Retry ==
    \A c \in Calls :
        (RefreshParsed(c) /\ call[c].pc = "reactive_json") =>
            LET new == call[c].refreshResponse.body
                l == call'[c].log IN
            /\ call'[c].pc = "retry_get"
            /\ l[Len(l)] = Get(call[c].url, new.access_token)
            /\ Requests(l) = Requests(call[c].log) + 1
            /\ NumOp(l, "GET") = 2
            /\ \A i \in 1..Len(l) : l[i].op = "GET" => l[i].target = UrlOf(c)
            /\ store'[RefreshKey] = new.refresh_token

\* C2 (retry answered): whatever the status of the retried GET, 401
\* included, it is returned and nothing more is sent or changed.
C2_Final ==
    \A c \in Calls : \A s \in GetStatuses :
        RetryGetAnswered(c, s) =>
            /\ call'[c].pc = "returned"
            /\ call'[c].response.status = s
            /\ Requests(call'[c].log) = Requests(call[c].log)
            /\ store' = store /\ href' = href

\* C2: when the first GET returns 401 and the refresh then succeeds, exactly
\* one more GET to the same URL is sent, carrying the access token returned
\* by that refresh, and the store then holds the new refresh token; if the
\* retried GET also returns 401 it is returned as it is, with no further
\* refresh and no further GET.
C2_OneRetryWithNewToken == [][C2_Retry /\ C2_Final]_vars

\* A call returned the 401 of its retried GET.
C2_Witness ==
    \E c \in Calls :
        /\ call[c].pc = "returned"
        /\ call[c].response.status = Unauthorized
        /\ NumOp(call[c].log, "GET") = 2

\* parseInt of the stored expires_at.
StoredExpiresAt(s) == parseInt(s[ExpiresKey]).val

\* C3 (start): a call that starts with the three keys stored and
\* now > expires_at - 30000 sends the refresh POST and nothing else.
C3_Start ==
    \A c \in Calls :
        (/\ Start(c)
         /\ ~SessionAbsent(store) /\ store[AccessKey] # NULL /\ store[RefreshKey] # NULL
         /\ store[ExpiresKey] # NULL
         /\ now > StoredExpiresAt(store) - 30000) =>
            /\ call'[c].pc = "proactive_fetch"
            /\ call'[c].log = <<Post(store[RefreshKey], store[AccessKey])>>

\* C3 (log): a call that began with a refresh POST has sent no GET before
\* the answer to it, and just that one POST before its first GET.
C3_Log ==
    \A c \in Calls :
        LET l == call[c].log IN
        (Len(l) > 0 /\ l[1].op = "POST") =>
            \A i \in 1..Len(l) :
                l[i].op = "GET" =>
                    /\ i > 2
                    /\ IsRefreshAnswer(l[2]) /\ Success(StatusOf(l[2]))
                    /\ (\A j \in 1..i - 1 : l[j].op # "GET") =>
                           NumOp(SubSeq(l, 1, i - 1), "POST") = 1

\* C3: a call made when now > expires_at - 30000 (access and refresh token
\* stored) sends exactly one refresh POST before its first GET; no GET is
\* sent before that refresh has been answered.
C3_ProactiveRefreshFirst == [](C3_Log) /\ [][C3_Start]_vars

\* A call refreshed proactively and then sent its GET.
C3_Witness ==
    \E c \in Calls :
        /\ call[c].pc = "first_get"
        /\ call[c].log[1].op = "POST"
        /\ NumOp(call[c].log, "GET") = 1

\* C4: a call made when now <= expires_at - 30000, the boundary included,
\* sends no refresh POST before its first GET, and that GET carries the
\* access token read from the store at the start of the call.
C4_NoRefreshInsideMargin ==
    [][\A c \in Calls :
          (/\ Start(c)
           /\ store[AccessKey] # NULL /\ store[ExpiresKey] # NULL
           /\ now <= StoredExpiresAt(store) - 30000) =>
              /\ call'[c].pc = "first_get"
              /\ call'[c].log = <<Get(UrlOf(c), store[AccessKey])>>]_vars

\* A call has just started at the boundary now = expires_at - 30000 (the
\* clock has not moved since the page was loaded) and sent its GET.
C4_Witness ==
    \E c \in Calls :
        /\ now = StartClock
        /\ store[ExpiresKey] # NULL /\ now = StoredExpiresAt(store) - 30000
        /\ call[c].pc = "first_get"
        /\ call[c].log = <<Get(UrlOf(c), store[AccessKey])>>

\* C5: a call made while no Session is stored fails at once with the
\* unauthenticated error: it sends no request, issues no redirect and
\* leaves the store unchanged.
C5_NoSessionFailsImmediately ==
    [][\A c \in Calls :
          (Start(c) /\ SessionAbsent(store)) =>
              /\ call'[c].pc = "thrown"
              /\ call'[c].error = ErrNoAccessToken
              /\ call'[c].log = <<>>
              /\ store' = store /\ href' = href]_vars

\* A call has thrown the unauthenticated error over an empty store.
C5_Witness ==
    \E c \in Calls :
        /\ call[c].pc = "thrown" /\ call[c].error = ErrNoAccessToken
        /\ call[c].log = <<>> /\ SessionAbsent(store)

\* C6: a GET answered with any status other than 401 is returned unchanged:
\* no reactive refresh POST and no second GET are sent, no redirect is
\* issued, and the store is left as it was.
C6_OnlyUnauthorizedRetries ==
    [][\A c \in Calls : \A s \in GetStatuses :
          (s # 401 /\ (FirstGetAnswered(c, s) \/ RetryGetAnswered(c, s))) =>
              /\ call'[c].pc = "returned"
              /\ call'[c].response.status = s
              /\ Requests(call'[c].log) = Requests(call[c].log)
              /\ NumOp(call'[c].log, "href") = 0
              /\ store' = store /\ href' = href]_vars

\* A call returned the 404 of its only GET.
C6_Witness ==
    \E c \in Calls :
        /\ call[c].pc = "returned"
        /\ call[c].response.status = 404
        /\ Requests(call[c].log) = 1

\* C7 (log): in the log of every call, what follows a successful refresh
\* answer (unless json() rejects) is the three setItem calls and only then
\* the GET.
C7_Log ==
    \A c \in Calls : \A i \in 1..Len(call[c].log) :
        LET l == call[c].log IN
        (IsRefreshAnswer(l[i]) /\ Success(StatusOf(l[i])) /\ Len(l) > i /\ l[i + 1].op # "reject") =>
            /\ Len(l) >= i + 4
            /\ \A j \in i + 1..i + 3 : l[j].op = "setItem"
            /\ <<l[i + 1].target, l[i + 2].target, l[i + 3].target>> = <<AccessKey, RefreshKey, ExpiresKey>>
            /\ l[i + 4] = Get(UrlOf(c), l[i + 1].data[1])

\* C7 (step): the step that sends the GET after a successful refresh leaves
\* the Session of the refresh answer in the store; and a call that starts
\* holds the access token the store has at that moment.
C7_Step ==
    \A c \in Calls :
        /\ RefreshParsed(c) =>
              LET new == call[c].refreshResponse.body IN
              /\ store'[AccessKey] = new.access_token
              /\ store'[RefreshKey] = new.refresh_token
              /\ StoredExpiresAt(store') = now + new.expires_in * 1000
              /\ call'[c].log[Len(call'[c].log)] = Get(UrlOf(c), store'[AccessKey])
        /\ (Start(c) /\ ~Free(call'[c])) =>
              /\ call'[c].accessToken = store[AccessKey]
              /\ call'[c].log[1] \in {Get(UrlOf(c), store[AccessKey]),
                                      Post(store[RefreshKey], store[AccessKey])}

\* C7: whenever a refresh succeeds, the new access_token, refresh_token and
\* expires_at are written to the store before the GET that follows is sent,
\* so a call that starts after that write reads the new access token.
C7_StoreUpdatedBeforeGet == [](C7_Log) /\ [][C7_Step]_vars

\* Call 1 has refreshed and is awaiting its GET; call 2 started after that
\* and sent its GET with the access token call 1 stored.
C7_Witness ==
    /\ call[1].pc \in {"first_get", "retry_get"}
    /\ call[2].pc = "first_get"
    /\ \E i \in 1..Len(call[1].log) :
          /\ call[1].log[i].op = "setItem" /\ call[1].log[i].target = AccessKey
          /\ call[2].log = <<Get(UrlOf(2), call[1].log[i].data[1])>>

\* The expiresAt a call starting over store s computes: 0 without the key.
ExpiresAtRead(s) == IF s[ExpiresKey] = NULL THEN 0 ELSE StoredExpiresAt(s)

\* C8 (no refresh token): the page removes the refresh token only together
\* with the access token, so the case is taken from the store as it is
\* with the refresh token gone: a call that starts there with a refresh
\* due throws and sends no request.
C8_NoRefreshToken ==
    \A c \in Calls :
        LET s == removeItem(store, RefreshKey)
            r == Enter(UrlOf(c), s, now) IN
        (s[AccessKey] # NULL /\ now > ExpiresAtRead(s) - 30000) =>
            /\ r.pc = "thrown" /\ r.error # NoError
            /\ Requests(r.log) = 0

\* C8 (step): a call whose proactive refresh is answered with a
\* non-success status throws and has sent no GET.
C8_Step ==
    \A c \in Calls : \A s \in PostStatuses : \A e \in ExpiresInValues :
        (RefreshAnswered(c, s, e) /\ call[c].pc = "proactive_fetch" /\ ~Success(s)) =>
            /\ call'[c].pc = "thrown" /\ call'[c].error # NoError
            /\ NumOp(call'[c].log, "GET") = 0

\* C8 (log): a call whose first refresh POST was refused has thrown, and
\* its log holds no GET.
C8_Log ==
    \A c \in Calls :
        LET l == call[c].log IN
        (Len(l) >= 2 /\ l[1].op = "POST" /\ IsRefreshAnswer(l[2]) /\ ~Success(StatusOf(l[2]))) =>
            call[c].pc = "thrown" /\ NumOp(l, "GET") = 0

\* C8: if the proactive refresh of a call fails (no refresh token stored, or
\* a non-success answer), the call ends in failure and never sends a GET.
C8_FailedProactiveRefreshSendsNoGet ==
    [](C8_Log /\ C8_NoRefreshToken) /\ [][C8_Step]_vars

\* One call's proactive refresh was refused: it threw without a GET.  The
\* other call's refresh has just stored a Session whose refresh is due
\* again, the case in which a missing refresh token would count.
C8_Witness ==
    \E c, d \in Calls :
        /\ call[c].pc = "thrown" /\ call[c].error = ErrAuthFailed
        /\ Len(call[c].log) >= 2 /\ call[c].log[1].op = "POST"
        /\ IsRefreshAnswer(call[c].log[2]) /\ ~Success(StatusOf(call[c].log[2]))
        /\ NumOp(call[c].log, "GET") = 0
        /\ call[d].pc = "first_get"
        /\ store[AccessKey] # NULL /\ now > ExpiresAtRead(store) - 30000

\* C9: whatever the answers, one call sends at most two GETs and at most
\* two refresh POSTs.
C9_AtMostTwoGetsTwoPosts ==
    \A c \in Calls :
        NumOp(call[c].log, "GET") <= 2 /\ NumOp(call[c].log, "POST") <= 2

\* A call has sent two refresh POSTs and two GETs.
C9_Witness ==
    \E c \in Calls :
        NumOp(call[c].log, "GET") = 2 /\ NumOp(call[c].log, "POST") = 2

\* C10: every time a Session is stored (handleAuth, proactive or reactive
\* refresh), the stored expires_at is T + expires_in * 1000, T the clock at
\* that moment and expires_in the value of the response just received; and
\* a Session is stored at no other moment.
C10_ExpiresAtExact ==
    [][/\ AuthParsed =>
             StoredExpiresAt(store') = now + authResponse.body.expires_in * 1000
       /\ \A c \in Calls :
             RefreshParsed(c) =>
                 StoredExpiresAt(store') = now + call[c].refreshResponse.body.expires_in * 1000
       /\ (\E k \in SessionKeys : store'[k] # store[k] /\ store'[k] # NULL) =>
             (AuthParsed \/ \E c \in Calls : RefreshParsed(c))]_vars

\* A Session granted for 60 seconds was stored after the clock had moved.
C10_Witness ==
    /\ store[ExpiresKey] # NULL
    /\ StoredExpiresAt(store) = StartClock + 30000 + 60 * 1000

\* C11: starting from an empty store, in every state reached by api_key
\* exchanges, t3kFetch calls and logouts, the keys tone3000_access_token,
\* tone3000_refresh_token and tone3000_expires_at are all present or all
\* absent.
C11_AllKeysOrNone ==
    \/ \A k \in SessionKeys : getItem(store, k) = NULL
    \/ \A k \in SessionKeys : getItem(store, k) # NULL

\* A refresh has replaced the Session of the api_key exchange while a call
\* that sent its GET was still in flight: the three keys are present.
C11_Witness ==
    /\ store[AccessKey] = AccessTok(2) /\ store[RefreshKey] = RefreshTok(2)
    /\ store[ExpiresKey] # NULL
    /\ \E c \in Calls : call[c].pc \in {"first_get", "retry_get"}

\* C12 (state): the stored access token and refresh token are those of one
\* and the same issuance, and there is an expires_at with them.
C12_OneIssuance ==
    \/ SessionAbsent(store)
    \/ \E k \in 1..issued :
          /\ store[AccessKey] = AccessTok(k)
          /\ store[RefreshKey] = RefreshTok(k)
          /\ store[ExpiresKey] # NULL

\* C12 (step): a step that changes any of the three keys either leaves all
\* three absent, or is the step that stores the Session of one answer
\* (handleAuth's or a refresh's) and leaves the access token, the refresh
\* token and the expires_at of that one Session.
C12_Replace ==
    (\E key \in SessionKeys : store'[key] # store[key]) =>
        \/ SessionAbsent(store')
        \/ \E k \in 1..issued : \E e \in ExpiresInValues :
              /\ \/ AuthParsed /\ authResponse.body = Session(k, e)
                 \/ \E c \in Calls : RefreshParsed(c) /\ call[c].refreshResponse.body = Session(k, e)
              /\ store'[AccessKey] = AccessTok(k)
              /\ store'[RefreshKey] = RefreshTok(k)
              /\ StoredExpiresAt(store') = now + e * 1000

\* C12: under any interleaving of t3kFetch calls, api_key exchange and
\* logout, a new Session replaces the prior one as a whole: in no state do
\* the stored access_token, refresh_token and expires_at come from two
\* different issuances.
C12_AtomicReplacement == [](C12_OneIssuance) /\ [][C12_Replace]_vars

\* While call 1 awaited the body of its refresh answer, call 2 was refused
\* a refresh and cleared the store; call 1 then stored its Session whole.
C12_Witness ==
    /\ call[1].pc = "retry_get"
    /\ call[2].pc = "thrown" /\ NumOp(call[2].log, "removeItem") = 3
    /\ store[AccessKey] = AccessTok(2) /\ store[RefreshKey] = RefreshTok(2)
    /\ href = AuthUrl

\* The other call slot.
Other(c) == CHOOSE d \in Calls : d # c

\* Call c began with a refresh POST that was answered with success, and
\* nothing it awaited was rejected nor was its GET answered 401.
RefreshedProactively(c) ==
    LET l == call[c].log IN
    /\ Len(l) >= 2 /\ l[1].op = "POST"
    /\ IsRefreshAnswer(l[2]) /\ Success(StatusOf(l[2]))
    /\ \A i \in 1..Len(l) :
          /\ l[i].op # "reject"
          /\ (l[i].op = "answer" /\ l[i].target # RefreshUrl) => StatusOf(l[i]) # 401

\* C13 (start): a call that starts while the other call's proactive refresh
\* is pending, over the same near-expiry Session, sends a refresh POST of
\* its own with the same tokens.
C13_Start ==
    \A c \in Calls :
        (/\ Start(c)
         /\ call[Other(c)].pc \in {"proactive_fetch", "proactive_json"}
         /\ call[Other(c)].log[1] = Post(store[RefreshKey], store[AccessKey])
         /\ store[ExpiresKey] # NULL
         /\ now > StoredExpiresAt(store) - 30000) =>
            /\ call'[c].pc = "proactive_fetch"
            /\ call'[c].log = <<call[Other(c)].log[1]>>

\* C13 (store): the call whose refresh answer is processed overwrites the
\* store with its own Session, whatever the other call stored before.
C13_Overwrite ==
    \A c \in Calls :
        RefreshParsed(c) =>
            /\ store'[AccessKey] = call[c].refreshResponse.body.access_token
            /\ store'[RefreshKey] = call[c].refreshResponse.body.refresh_token
            /\ call'[Other(c)] = call[Other(c)]

\* Both call slots hold calls that began with the same refresh POST: they
\* read the same near-expiry Session and ran together (slot 2 is taken only
\* while slot 1 is busy).
RanTogether ==
    /\ Len(call[1].log) > 0 /\ Len(call[2].log) > 0
    /\ call[1].log[1].op = "POST"
    /\ call[2].log[1] = call[1].log[1]

\* C13 as stated: of two calls that ran together over the same near-expiry
\* Session no call fails outright, and the store holds a Session (that of
\* the refresh answer processed last) once an answer has been processed.
C13_NoCallFails ==
    RanTogether =>
        \A c \in Calls :
            /\ call[c].pc # "thrown"
            /\ NumOp(call[c].log, "setItem") > 0 => ~SessionAbsent(store)

\* C13 (refused): a refresh POST answered with a non-success status while
\* the other call of the pair is under way fails its call: the three keys
\* are removed, also when they hold the Session the other call has just
\* stored, the page is redirected, and the other call goes on untouched.
C13_Refused ==
    \A c \in Calls : \A s \in PostStatuses : \A e \in ExpiresInValues :
        (RefreshAnswered(c, s, e) /\ ~Success(s) /\ RanTogether) =>
            /\ call'[c].pc = "thrown" /\ call'[c].error = ErrAuthFailed
            /\ NumOp(call'[c].log, "GET") = NumOp(call[c].log, "GET")
            /\ SessionAbsent(store') /\ href' = AuthUrl
            /\ call'[Other(c)] = call[Other(c)]

\* C13 (calls): a call that refreshed proactively holds, and has sent its
\* GET with, the access token of its own refresh answer, whatever the store
\* holds by now; it has not failed, and once its GET is answered it has
\* returned that answer.
C13_OwnToken ==
    \A c \in Calls :
        RefreshedProactively(c) =>
            LET l == call[c].log IN
            /\ call[c].pc # "thrown"
            /\ NumOp(l, "POST") = 1
            /\ call[c].pc = "first_get" =>
                  /\ call[c].accessToken = call[c].tokens.access_token
                  /\ l[3] = Set(AccessKey, call[c].tokens.access_token)
                  /\ l[Len(l)] = Get(UrlOf(c), call[c].tokens.access_token)
            /\ call[c].pc = "returned" =>
                  /\ l[6] = Get(UrlOf(c), l[3].data[1])
                  /\ String(call[c].response.status) = l[7].data[1]

\* C13 as amended: two calls that run together over the same near-expiry
\* Session each send a refresh POST of their own.  Each refresh answered
\* with success overwrites the store with its own Session, and its call
\* sends its GET with the access token of that answer and, unless that GET
\* is answered 401 or an await is rejected, returns the GET's answer.  A
\* refresh answered with a non-success status fails its call, removes the
\* three session keys, whatever the other call stored, and redirects.
C13_ConcurrentRefreshes ==
    [](C13_OwnToken) /\ [][C13_Start /\ C13_Overwrite /\ C13_Refused]_vars

\* Both calls read the stored Session, both refreshed; call 2's answer
\* was processed first and call 1's last, so the store holds call 1's
\* Session; each call's GET carried its own token and both returned.
C13_Witness ==
    /\ call[1].pc = "returned" /\ call[2].pc = "returned"
    /\ call[1].log[1] = Post(RefreshTok(0), AccessTok(0))
    /\ call[2].log[1] = call[1].log[1]
    /\ call[1].log[6] = Get(UrlOf(1), AccessTok(1))
    /\ call[2].log[6] = Get(UrlOf(2), AccessTok(2))
    /\ store[AccessKey] = AccessTok(1) /\ store[RefreshKey] = RefreshTok(1)

\* A call starting over store s at clock value t needs a proactive refresh.
StartsWithRefresh(s, t) == s[AccessKey] # NULL /\ t > ExpiresAtRead(s) - 30000

\* C14: when a refresh is required (at the start of a call, or after a GET
\* answered 401) and no refresh_token is stored, the call fails at once
\* without sending a refresh POST, the three session keys are removed and
\* the redirect to the authentication entry point is issued.
C14_NoRefreshTokenEscalates ==
    [][\A c \in Calls :
          (/\ store[RefreshKey] = NULL
           /\ \/ Start(c) /\ StartsWithRefresh(store, now)
              \/ FirstGetAnswered(c, 401)) =>
              /\ call'[c].pc = "thrown"
              /\ NumOp(call'[c].log, "POST") = NumOp(call[c].log, "POST")
              /\ SessionAbsent(store')
              /\ href' = AuthUrl]_vars

\* The store holds an access token but lacks the refresh token or expires_at.
PartialSession(s) == s[AccessKey] # NULL /\ (s[RefreshKey] = NULL \/ s[ExpiresKey] = NULL)

\* C15 as stated: a call made while the store holds only a partial Session
\* (access token present, refresh token or expires_at absent) fails as
\* unauthenticated without making any network call.
C15_PartialSessionIsAbsent ==
    [][\A c \in Calls :
          (Start(c) /\ PartialSession(store)) =>
              /\ call'[c].pc = "thrown"
              /\ call'[c].error = ErrNoAccessToken
              /\ Requests(call'[c].log) = 0]_vars

\* C15 as amended: a call made while the store holds an access token but
\* lacks the refresh token or expires_at is not taken as unauthenticated.
\* Without expires_at the expiry is read as 0, so a refresh is due: with a
\* refresh token the call sends the refresh POST, without one it fails
\* with the authentication-failed error and no request.  With expires_at
\* and no refresh token the call sends its GET with the stored access
\* token while now <= expires_at - 30000, and fails in the same way after.
\* The cases without a refresh token are taken from the store as it is
\* with the refresh token gone (the page removes it only together with the
\* access token); the case without expires_at is a step over the store an
\* earlier version of the page left.
C15_PartialSessionIsUsed ==
    /\ [](\A c \in Calls :
            LET s == removeItem(store, RefreshKey)
                r == Enter(UrlOf(c), s, now) IN
            s[AccessKey] # NULL =>
                /\ r.error # ErrNoAccessToken
                /\ (s[ExpiresKey] = NULL \/ now > StoredExpiresAt(s) - 30000) =>
                      /\ r.pc = "thrown"
                      /\ r.error = ErrAuthFailed
                      /\ r.log = <<>>
                /\ (s[ExpiresKey] # NULL /\ now <= StoredExpiresAt(s) - 30000) =>
                      /\ r.pc = "first_get"
                      /\ r.log = <<Get(UrlOf(c), s[AccessKey])>>)
    /\ [][\A c \in Calls :
             (Start(c) /\ PartialSession(store)) =>
                 /\ call'[c].error # ErrNoAccessToken
                 /\ store' = store /\ href' = href
                 /\ (store[ExpiresKey] = NULL /\ store[RefreshKey] # NULL) =>
                       /\ call'[c].pc = "proactive_fetch"
                       /\ call'[c].log = <<Post(store[RefreshKey], store[AccessKey])>>]_vars

\* Over a store with access and refresh token but no expires_at a call
\* has sent the refresh POST; the store is as it was.
C15_Witness ==
    /\ PartialSession(store) /\ store[RefreshKey] # NULL /\ store[ExpiresKey] = NULL
    /\ call[1].pc = "proactive_fetch"
    /\ call[1].log = <<Post(store[RefreshKey], store[AccessKey])>>
    /\ call[2].pc = "idle"

\* Call c ends in this step with the authentication-failed error.
FailsAuth(c) ==
    /\ call'[c] # call[c]
    /\ call'[c].pc = "thrown" /\ call'[c].error = ErrAuthFailed

\* A refresh of call c fails in this step: none can be sent for want of a
\* refresh token, the refresh endpoint answers with a non-success status,
\* or the refresh request or the reading of its body is rejected.
RefreshFails(c) ==
    \/ Start(c) /\ StartsWithRefresh(store, now) /\ store[RefreshKey] = NULL
    \/ FirstGetAnswered(c, 401) /\ store[RefreshKey] = NULL
    \/ \E s \in PostStatuses, e \in ExpiresInValues : RefreshAnswered(c, s, e) /\ ~Success(s)
    \/ /\ Rejected(c)
       /\ call[c].pc \in {"proactive_fetch", "proactive_json", "reactive_fetch", "reactive_json"}

\* C16: a call fails with the authentication-failed error if and only if
\* a refresh it attempted failed; when no refresh of the call fails, the
\* call does not raise that error, and the answer of its last GET is
\* returned whatever its status.
C16_AuthFailedIffRefreshFailed ==
    [][\A c \in Calls :
          /\ FailsAuth(c) <=> (RefreshFails(c) /\ call'[c] # call[c])
          /\ \A s \in GetStatuses :
                (RetryGetAnswered(c, s) \/ (FirstGetAnswered(c, s) /\ s # 401)) =>
                    call'[c].pc = "returned" /\ call'[c].response.status = s]_vars

\* C17: the error a call fails with tells the failure kinds apart: it is
\* "token refresh failed" when the refresh endpoint answered with a
\* non-success status, and "no refresh token available" when a refresh was
\* due and no refresh_token was stored.
C17_ErrorKindsDistinguished ==
    [][\A c \in Calls :
          /\ (\E s \in PostStatuses, e \in ExpiresInValues :
                 RefreshAnswered(c, s, e) /\ ~Success(s)) =>
                 call'[c].pc = "thrown" /\ call'[c].error = ErrRefreshFailed
          /\ (/\ store[RefreshKey] = NULL
              /\ \/ Start(c) /\ StartsWithRefresh(store, now)
                 \/ FirstGetAnswered(c, 401)) =>
                 call'[c].pc = "thrown" /\ call'[c].error = ErrNoRefreshToken]_vars

\* C18: the proactive refresh POST carries the refresh_token and the
\* access_token stored when the call started, and the first GET after a
\* successful proactive refresh carries the access token of the refresh
\* answer, not the one read at the start of the call.
C18_ProactivePostAndGetTokens ==
    [][\A c \in Calls :
          /\ (Start(c) /\ call'[c].pc = "proactive_fetch") =>
                /\ call'[c].log = <<Post(getItem(store, RefreshKey), getItem(store, AccessKey))>>
                /\ call'[c].accessToken = getItem(store, AccessKey)
          /\ (RefreshParsed(c) /\ call[c].pc = "proactive_json") =>
                LET l == call'[c].log
                    new == call[c].refreshResponse.body.access_token IN
                /\ call'[c].pc = "first_get"
                /\ NumOp(l, "GET") = 1
                /\ l[Len(l)] = Get(UrlOf(c), new)
                /\ new # call[c].accessToken
                /\ l[1] = Post(l[1].data[1], call[c].accessToken)]_vars

\* A call that read A1 and R1 sent them in its refresh POST, was granted
\* A2 and sent its GET with A2.
C18_Witness ==
    \E c \in Calls :
        /\ call[c].pc = "first_get"
        /\ call[c].log[1] = Post(RefreshTok(1), AccessTok(1))
        /\ call[c].log[Len(call[c].log)] = Get(UrlOf(c), AccessTok(2))

\* C19: expires_in being positive in every Session granted, each GET a
\* call sends, first request or retry, carries an access token whose
\* recorded expires_at is later than the clock at the moment of sending:
\* the stored token and its stored expires_at when the call did not
\* refresh, the token and the expires_at just stored when it did.
C19_GetCarriesLiveToken ==
    [][(\A e \in ExpiresInValues : e > 0) => \A c \in Calls :
          /\ (Start(c) /\ call'[c].pc = "first_get") =>
                /\ call'[c].log = <<Get(UrlOf(c), store[AccessKey])>>
                /\ store[ExpiresKey] # NULL
                /\ StoredExpiresAt(store) > now
          /\ (NumOp(call'[c].log, "GET") > NumOp(call[c].log, "GET") /\ ~Start(c)) =>
                /\ RefreshParsed(c)
                /\ call'[c].log[Len(call'[c].log)] = Get(UrlOf(c), store'[AccessKey])
                /\ store'[AccessKey] = call[c].refreshResponse.body.access_token
                /\ StoredExpiresAt(store') > now]_vars

\* The stored token reached its expiry instant; a call that started then
\* refreshed it and sent its GET with the new token, which expires later.
C19_Witness ==
    \E c \in Calls :
        /\ call[c].pc = "first_get"
        /\ call[c].log[1] = Post(RefreshTok(1), AccessTok(1))
        /\ call[c].expiresAt = Num(now)
        /\ call[c].log[Len(call[c].log)] = Get(UrlOf(c), store[AccessKey])
        /\ StoredExpiresAt(store) > now

\* Neither a t3kFetch call nor the api_key exchange is suspended at an await.
NothingInFlight == authPc = "idle" /\ \A c \in Calls : Free(call[c])

\* C20: handleLogout leaves the three session keys absent; while no call
\* is in flight they stay absent; and a t3kFetch call that follows finds
\* no Session: it fails with the unauthenticated error without any
\* request, and changes nothing.
C20_ClearThenAbsent ==
    [][/\ handleLogout =>
             /\ \A k \in SessionKeys : getItem(store', k) = NULL
             /\ \A c \in Calls :
                   LET r == Enter(UrlOf(c), store', now) IN
                   r.pc = "thrown" /\ r.error = ErrNoAccessToken /\ r.log = <<>>
       /\ (SessionAbsent(store) /\ NothingInFlight) =>
             /\ SessionAbsent(store')
             /\ \A c \in Calls :
                   Start(c) =>
                       /\ call'[c].pc = "thrown" /\ call'[c].error = ErrNoAccessToken
                       /\ Requests(call'[c].log) = 0
                       /\ href' = href]_vars

\* After a login and a call that returned, the user logged out (nothing
\* else clears the store without redirecting); the call made next failed
\* with the unauthenticated error and sent nothing.
C20_Witness ==
    /\ issued >= 1 /\ href = AppUrl /\ store[ApiKeyKey] # NULL
    /\ SessionAbsent(store) /\ NothingInFlight
    /\ call[1].pc = "thrown" /\ call[1].error = ErrNoAccessToken /\ call[1].log = <<>>
    /\ call[2].pc = "returned"

\* C21 (store): over whatever the store holds, the three removeItem calls
\* leave the three session keys absent and every other key as it was, and
\* run once more they change nothing.
C21_Store ==
    LET once == ClearTokens(store) IN
    /\ \A k \in SessionKeys : once[k] = NULL
    /\ \A k \in StoreKeys \ SessionKeys : once[k] = store[k]
    /\ ClearTokens(once) = once

\* C21 (step): handleLogout leaves the three session keys absent and
\* touches nothing else.
C21_Step ==
    handleLogout =>
        /\ \A k \in SessionKeys : store'[k] = NULL
        /\ \A k \in StoreKeys \ SessionKeys : store'[k] = store[k]
        /\ href' = href /\ call' = call

\* C21: the clear operation is unconditional and idempotent: it can run
\* in every state, with or without a Session stored, and running it twice
\* in a row leaves the store as running it once does.
C21_ClearIdempotent == [](C21_Store /\ ENABLED handleLogout) /\ [][C21_Step]_vars

\* Call 1 sent its GET with the stored access token; then handleLogout
\* cleared the store (no refresh was answered, no redirect issued), and the
\* call made after it found no access token.
C21_Witness ==
    /\ SessionAbsent(store) /\ href = AppUrl /\ issued = 0
    /\ store[ApiKeyKey] # NULL
    /\ call[1].pc = "first_get" /\ call[1].log = <<Get(UrlOf(1), AccessTok(0))>>
    /\ call[2].pc = "thrown" /\ call[2].error = ErrNoAccessToken

\* C22: the store passes from holding no Session to holding one only in
\* the step that stores the body of a successful api_key exchange or of a
\* successful refresh; it passes from holding one to holding none only
\* when a refresh is answered with a non-success status or on logout; and
\* an api_key exchange answered with a non-success status, or rejected,
\* leaves the three session keys as they were, then and later.
C22_SessionCreatedAndDestroyed ==
    [][/\ (SessionAbsent(store) /\ ~SessionAbsent(store')) =>
             \/ AuthParsed /\ Success(authResponse.status)
             \/ \E c \in Calls : RefreshParsed(c) /\ Success(call[c].refreshResponse.status)
       /\ (~SessionAbsent(store) /\ SessionAbsent(store')) =>
             \/ handleLogout
             \/ \E c \in Calls, s \in PostStatuses, e \in ExpiresInValues :
                   RefreshAnswered(c, s, e) /\ ~Success(s)
       /\ \A s \in PostStatuses, e \in ExpiresInValues :
             (AuthAnswered(s, e) /\ ~Success(s)) =>
                 /\ \A k \in SessionKeys : store'[k] = store[k]
                 /\ authPc' = "idle"
       /\ AuthRejected =>
             /\ \A k \in SessionKeys : store'[k] = store[k]
             /\ authPc' = "idle"]_vars

\* Call 1's refresh was pending when the user logged out; call 2 found no
\* Session; then call 1 stored the Session of its refresh answer: a
\* Session created by a refresh over an empty store.
C22_Witness ==
    /\ call[2].pc = "thrown" /\ call[2].error = ErrNoAccessToken
    /\ call[1].pc \in {"first_get", "retry_get"}
    /\ \E i \in 1..Len(call[1].log) : call[1].log[i] = Set(AccessKey, AccessTok(2))
    /\ store[AccessKey] = AccessTok(2) /\ href = AppUrl

\* Two outcomes of a step of call r agree: the same requests, store
\* operations and redirect, in the same order, and the same error raised.
SameEffect(r, p, q) ==
    /\ Done(r, p) = Done(r, q)
    /\ Apply(store, Done(r, p)) = Apply(store, Done(r, q))
    /\ Navigate(href, Done(r, p)) = Navigate(href, Done(r, q))
    /\ (p.pc = "thrown") = (q.pc = "thrown")
    /\ p.error = q.error

\* The answers the refresh endpoint may give.
RefreshAnswers ==
    {Response(200, Session(k, e)) : k \in 1..MaxIssue, e \in ExpiresInValues}
    \cup {Response(s, NoSession) : s \in PostStatuses \ {200}}

\* C23: the proactive and the reactive refresh are one sub-procedure: over
\* the same store and for a call holding the same access token, the block
\* of the expiry check and the block of the 401 branch send the same
\* refresh request or raise the same error; given the same answer they
\* remove the same keys, issue the same redirect and raise the same error,
\* or store the same Session and go on with the same access token.
C23_SameRefreshProcedure ==
    \A c \in Calls :
        LET r == call[c] IN
        (~Free(r)) =>
            /\ SameEffect(r, BeginRefresh(r, store, "proactive_fetch"), BeginReactiveRefresh(r, store))
            /\ \A resp \in RefreshAnswers :
                  LET p == OnRefreshResponse(r, resp, "proactive_json")
                      q == OnReactiveRefreshResponse(r, resp) IN
                  /\ SameEffect(r, p, q)
                  /\ Ok(resp) =>
                        LET pp == OnRefreshParsed(p, now)
                            qq == OnReactiveRefreshParsed(q, now) IN
                        /\ Done(p, pp) = Done(q, qq)
                        /\ Apply(store, Done(p, pp)) = Apply(store, Done(q, qq))
                        /\ pp.tokens = qq.tokens

\* Call 1 sent its GET with the stored token, call 2 started later over the
\* same Session and refreshed proactively, call 1 was answered 401 and
\* refreshed reactively; both refreshes were refused, and from the refresh
\* request on the two calls did the same and failed with the same error.
C23_Witness ==
    /\ call[1].pc = "thrown" /\ call[2].pc = "thrown"
    /\ Len(call[2].log) > 0
    /\ Len(call[1].log) = Len(call[2].log) + 2
    /\ call[2].log[1] = Post(RefreshTok(1), AccessTok(1))
    /\ call[2].log = SubSeq(call[1].log, 3, Len(call[1].log))
    /\ call[1].error = call[2].error
    /\ SessionAbsent(store) /\ href = AuthUrl

\* C24: under any interleaving of calls, every refresh POST carries a
\* refresh_token and an access_token that belong to the same Session.
C24_PostTokensOfOneSession ==
    \A c \in Calls : \A i \in 1..Len(call[c].log) :
        LET ev == call[c].log[i] IN
        ev.op = "POST" =>
            \E k \in 0..MaxIssue :
                ev.data[1] = RefreshTok(k) /\ ev.data[2] = AccessTok(k)

\* C25 (start): a call that starts with an access token stored and no
\* expires_at reads the expiry as 0 and begins a proactive refresh: it
\* sends the refresh POST, or fails for want of a refresh token; it sends
\* no GET in that step.
C25_Start ==
    \A c \in Calls :
        (Start(c) /\ store[AccessKey] # NULL /\ store[ExpiresKey] = NULL) =>
            /\ parseInt(OrElse(getItem(store, ExpiresKey), <<"0">>)) = Num(0)
            /\ NumOp(call'[c].log, "GET") = 0
            /\ \/ /\ store[RefreshKey] # NULL
                  /\ call'[c].pc = "proactive_fetch"
                  /\ call'[c].expiresAt = Num(0)
                  /\ call'[c].log = <<Post(store[RefreshKey], store[AccessKey])>>
               \/ /\ store[RefreshKey] = NULL
                  /\ call'[c].pc = "thrown"
                  /\ call'[c].log = <<>>

\* C25 (log): a call that read the expiry as 0 has sent no GET before the
\* answer to its refresh POST.
C25_Log ==
    \A c \in Calls :
        LET l == call[c].log IN
        (~Free(call[c]) /\ call[c].expiresAt = Num(0)) =>
            /\ l[1].op = "POST"
            /\ \A i \in 1..Len(l) : l[i].op = "GET" => (i > 2 /\ IsRefreshAnswer(l[2]))

\* C25: if tone3000_access_token is present and tone3000_expires_at is
\* absent, t3kFetch takes expires_at as 0, so the call attempts a proactive
\* refresh before sending any GET, whatever the clock.
C25_MissingExpiryRefreshes == [](C25_Log) /\ [][C25_Start]_vars

\* Over a store with access and refresh token but no expires_at a call
\* refreshed first and then sent its GET with the new access token.
C25_Witness ==
    \E c \in Calls :
        /\ call[c].pc = "first_get" /\ call[c].expiresAt = Num(0)
        /\ call[c].log[1] = Post(RefreshTok(0), AccessTok(0))
        /\ call[c].log[Len(call[c].log)] = Get(UrlOf(c), AccessTok(1))

\* C26 (step): tone3000_api_key changes only when the page mounts with an
\* api_key.
C26_Step ==
    (store'[ApiKeyKey] # store[ApiKeyKey]) => \E apiKey \in ApiKeys : Mount(apiKey)

\* C26 (calls): no call has written or removed tone3000_api_key, and what
\* a call does does not depend on it: over the store without that entry a
\* call would start, and begin its reactive refresh, in the same way.
C26_Calls ==
    \A c \in Calls :
        /\ \A i \in 1..Len(call[c].log) : call[c].log[i].target # ApiKeyKey
        /\ Enter(UrlOf(c), removeItem(store, ApiKeyKey), now) = Enter(UrlOf(c), store, now)
        /\ BeginReactiveRefresh(call[c], removeItem(store, ApiKeyKey))
              = BeginReactiveRefresh(call[c], store)

\* C26: the tone3000_api_key entry written when an api_key arrives is left
\* as it is by every later operation: t3kFetch, its refresh-failure cleanup
\* included, and handleLogout remove only the three session keys and
\* neither read nor change tone3000_api_key.
C26_ApiKeyUntouched == [](C26_Calls) /\ [][C26_Step]_vars

\* A refused refresh has removed the three session keys and redirected;
\* the api_key cached at login is still there.
C26_Witness ==
    /\ store[ApiKeyKey] \in ApiKeys
    /\ SessionAbsent(store) /\ href = AuthUrl
    /\ \E c \in Calls : call[c].pc = "thrown" /\ NumOp(call[c].log, "removeItem") = 3

====
